---- MODULE Spec2Model ----
(***************************************************************************)
(* Model of scripts/lib/publishing.ts: the dependency-ordered publish      *)
(* sequencer publish(), its ordering function topologicalSortPackages and  *)
(* the bounded retry helper retry().                                       *)
(***************************************************************************)
EXTENDS Integers, Sequences, FiniteSets, TLC

(***************************************************************************)
(* Bounds of the model                                                     *)
(***************************************************************************)
\* longest localDeps list of a package in the registries of SpecSort
MaxDeps == 2
\* milliseconds by which one Tick advances the clock of the pending timers
TickMs == 1000
\* largest numAttempts handed to retry() in SpecRetry
MaxAttempts == 4

\* names that may be keys of the registry
KeyNames == {"a", "b", "c"}
\* names that may occur in localDeps; "x" is never a registry key
DepNames == KeyNames \cup {"x"}

(***************************************************************************)
(* Program constants                                                       *)
(***************************************************************************)
PublishNumAttempts == 5
PublishDelay == 10000
AvailNumAttempts == 10
AvailDelay == 3000
\* res.status >= 400 throws
NotFoundStatus == 400

VARIABLES
    packages,      \* the registry: sequence of PackageDetails in key order
    publishOrder,  \* result of topologicalSortPackages (sequence of names)
    sortError,     \* the Error thrown by the sort, or NoError
    pc,            \* the await at which publish() is suspended
    i,             \* index in publishOrder of the package being processed
    running,       \* external operations in flight: [pkg, cmd]
    timers,        \* pending setTimeout callbacks of retry()
    retryState,    \* per call site of retry(): its closure
    started,       \* history: every [pkg, cmd] that was ever invoked
    published,     \* history: packages whose publish step resolved
    available,     \* history: packages whose check returned status < 400
    lastSettled,   \* history: the operation that settled last and how
    fatal,         \* the operation whose failure rejected publish()
    pushLog,       \* history: the git push commands invoked, with their arguments
    remote,        \* branches of the remote this run pushed, when it is followed
    watchDir,      \* whether the run is followed with its working directory and remote
    workdir,       \* the artifacts in the working directory during a transplant
    srcTree,       \* copyRecursiveSync: the tree at src
    destTree,      \* copyRecursiveSync: the tree at dest before the call
    copyResult     \* copyRecursiveSync: the tree at dest after it, and the error

vars == <<packages, publishOrder, sortError, pc, i, running, timers,
          retryState, started, published, available, lastSettled, fatal,
          pushLog, remote, watchDir, workdir, srcTree, destTree, copyResult>>

(***************************************************************************)
(* Sequences and registries                                                *)
(***************************************************************************)
Range(s) == {s[k] : k \in 1..Len(s)}

\* sequences over S without repetition, of length at most n
DistinctSeqs(S, n) ==
    UNION {{s \in [1..k -> S] : \A x, y \in 1..k : x # y => s[x] # s[y]} : k \in 0..n}

IndexOf(s, e) == CHOOSE k \in 1..Len(s) : s[k] = e

\* Object.keys(packages)
Keys(pkgs) == [k \in 1..Len(pkgs) |-> pkgs[k].name]

KeySet(pkgs) == {pkgs[k].name : k \in 1..Len(pkgs)}

\* packages[packageName], defined when packageName is a key
Lookup(pkgs, name) == pkgs[CHOOSE k \in 1..Len(pkgs) : pkgs[k].name = name]

\* PackageDetails restricted to the fields the ordering uses
PackageDetails(name, localDeps) == [name |-> name, localDeps |-> localDeps]

\* Record<string, PackageDetails> with the keys ks, in insertion order
Registry(ks, ds) == [k \in 1..Len(ks) |-> PackageDetails(ks[k], ds[k])]

\* the registries whose packages have at most n localDeps each
Registries(n) ==
    UNION {{Registry(ks, ds) : ds \in [1..Len(ks) -> DistinctSeqs(DepNames, n)]} :
              ks \in DistinctSeqs(KeyNames, Cardinality(KeyNames))}

(***************************************************************************)
(* topologicalSortPackages                                                 *)
(***************************************************************************)
NoError == [missing |-> "", path |-> <<>>]

RECURSIVE visit(_, _, _, _), visitDeps(_, _, _, _, _), visitDepsSamePath(_, _, _, _, _)

\* visit with the package pushed before its localDeps are visited
visitPushFirst(pkgs, st, packageName, path) ==
    IF st.err # NoError THEN st
    ELSE IF packageName \in st.visited THEN st
    ELSE LET st1 == [st EXCEPT !.visited = @ \cup {packageName}]
         IN IF packageName \notin KeySet(pkgs)
            THEN [st1 EXCEPT !.err = [missing |-> packageName, path |-> path]]
            ELSE visitDeps(pkgs, [st1 EXCEPT !.sorted = Append(@, packageName)],
                           Lookup(pkgs, packageName).localDeps, 1, path)

\* visit throwing when it comes back to a package of the path it is on
visitCycleThrows(pkgs, st, packageName, path) ==
    IF st.err # NoError THEN st
    ELSE IF packageName \in st.visited
    THEN IF \E k \in 1..(Len(path) - 1) : path[k] = packageName
         THEN [st EXCEPT !.err = [missing |-> packageName, path |-> path]]
         ELSE st
    ELSE LET st1 == [st EXCEPT !.visited = @ \cup {packageName}]
         IN IF packageName \notin KeySet(pkgs)
            THEN [st1 EXCEPT !.err = [missing |-> packageName, path |-> path]]
            ELSE LET st2 == visitDeps(pkgs, st1, Lookup(pkgs, packageName).localDeps, 1, path)
                 IN IF st2.err # NoError THEN st2
                    ELSE [st2 EXCEPT !.sorted = Append(@, packageName)]

\* st = [sorted, visited, err]; an err other than NoError is the exception
\* propagating out of every enclosing call
visit(pkgs, st, packageName, path) ==
    IF st.err # NoError THEN st
    ELSE IF packageName \in st.visited THEN st
    ELSE LET st1 == [st EXCEPT !.visited = @ \cup {packageName}]
         IN IF packageName \notin KeySet(pkgs)
            THEN [st1 EXCEPT !.err = [missing |-> packageName, path |-> path]]
            ELSE LET st2 == visitDeps(pkgs, st1, Lookup(pkgs, packageName).localDeps, 1, path)
                 IN IF st2.err # NoError THEN st2
                    ELSE [st2 EXCEPT !.sorted = Append(@, packageName)]

\* visitDeps handing the caller's path on without the dep
visitDepsSamePath(pkgs, st, deps, k, path) ==
    IF k > Len(deps) THEN st
    ELSE visitDepsSamePath(pkgs, visit(pkgs, st, deps[k], path), deps, k + 1, path)

\* packageDetails.localDeps.forEach((dep) => visit(dep, [...path, dep]))
visitDeps(pkgs, st, deps, k, path) ==
    IF k > Len(deps) THEN st
    ELSE visitDeps(pkgs, visit(pkgs, st, deps[k], Append(path, deps[k])), deps, k + 1, path)

RECURSIVE visitKeys(_, _, _)
\* Object.keys(packages).forEach((packageName) => visit(packageName, [packageName]))
visitKeys(pkgs, st, k) ==
    IF k > Len(pkgs) THEN st
    ELSE visitKeys(pkgs, visit(pkgs, st, pkgs[k].name, <<pkgs[k].name>>), k + 1)

\* the sort returning what it has when a package is missing
topologicalSortPackagesLenient(pkgs) ==
    [visitKeys(pkgs, [sorted |-> <<>>, visited |-> {}, err |-> NoError], 1)
     EXCEPT !.err = NoError]

\* const sorted = [], visited = new Set(); ...forEach(visit); return sorted
topologicalSortPackages(pkgs) ==
    visitKeys(pkgs, [sorted |-> <<>>, visited |-> {}, err |-> NoError], 1)

(***************************************************************************)
(* The state as one record, so that the synchronous code run by a handler  *)
(* composes as function application                                        *)
(***************************************************************************)
Sites == {"publish", "avail", "op"}

NoLoop == [pkg |-> "", numAttempts |-> 0, delay |-> 0, attempts |-> 0,
           settled |-> "none", calls |-> 0, nfail |-> 0, waited |-> -1,
           nsettle |-> 0, reason |-> "", errs |-> <<>>,
           args |-> [attempt |-> -1, remaining |-> -1, total |-> -1]]

NoOp == [pkg |-> "", cmd |-> ""]

NoSettle == [op |-> NoOp, ok |-> TRUE, status |-> 0, output |-> {}, err |-> ""]

State == [pc |-> pc, i |-> i, running |-> running, timers |-> timers,
          retryState |-> retryState, started |-> started,
          published |-> published, available |-> available,
          lastSettled |-> lastSettled, fatal |-> fatal, workdir |-> workdir,
          pushLog |-> pushLog, remote |-> remote,
          publishOrder |-> publishOrder, sortError |-> sortError]

Becomes(s) ==
    /\ pc' = s.pc
    /\ i' = s.i
    /\ running' = s.running
    /\ timers' = s.timers
    /\ retryState' = s.retryState
    /\ started' = s.started
    /\ published' = s.published
    /\ available' = s.available
    /\ lastSettled' = s.lastSettled
    /\ fatal' = s.fatal
    /\ workdir' = s.workdir
    /\ pushLog' = s.pushLog
    /\ remote' = s.remote
    /\ publishOrder' = s.publishOrder
    /\ sortError' = s.sortError
    /\ UNCHANGED <<packages, watchDir, srcTree, destTree, copyResult>>

\* the command the operation of a retry() call site runs
SiteCmd(site) ==
    CASE site = "publish" -> "publish"
      [] site = "avail" -> "fetch"
      [] OTHER -> "op"

\* the working directory outside a transplant, and in a run that is not
\* followed with its working directory: nothing of it is looked at.
\* tarball is <unscopedName>-<version>.tgz of the package being processed,
\* assets is ./tldraw-assets, package is ./package; each is "absent",
\* "stale" (left by an earlier run or cycle, or mixed with such a leftover)
\* or "fresh" (made by this cycle); rmFailed: a removal at the start of this
\* transplant failed
NoWorkdir == [tarball |-> "absent", assets |-> "absent", package |-> "absent",
              rmFailed |-> FALSE]

\* what the transplant of a cycle may find when it starts
Leftovers ==
    [tarball : {"absent", "stale"}, assets : {"absent", "stale"},
     package : {"absent", "stale"}, rmFailed : {FALSE}]

\* something is made where a leftover may be: the leftover stays in it
Over(old, new) == IF old = "stale" THEN "stale" ELSE new

\* what a command that settled did to the working directory
effect(w, cmd, ok) ==
    CASE cmd \in {"rmAssets1", "rmAssets2"} ->
            IF ok THEN [w EXCEPT !.assets = "absent"]
            ELSE [w EXCEPT !.rmFailed = @ \/ cmd = "rmAssets1"]
      [] cmd \in {"rmPackage1", "rmPackage2"} ->
            IF ok THEN [w EXCEPT !.package = "absent"]
            ELSE [w EXCEPT !.rmFailed = @ \/ cmd = "rmPackage1"]
      [] cmd = "rmTarball" -> IF ok THEN [w EXCEPT !.tarball = "absent"] ELSE w
      [] cmd = "curl" -> IF ok THEN [w EXCEPT !.tarball = "fresh"] ELSE w
      [] cmd = "clone" -> IF ok THEN [w EXCEPT !.assets = Over(@, "fresh")] ELSE w
      [] cmd = "tar" -> IF ok THEN [w EXCEPT !.package = Over(@, w.tarball)] ELSE w
      [] cmd = "copy" -> IF ok THEN [w EXCEPT !.assets = Over(w.package, @)] ELSE w
      [] OTHER -> w

\* the package.json names the registry names stand for, in two parts: the
\* scope with its slash and the rest; every one starts with '@tldraw'
NameParts ==
    [a |-> <<"@tldraw/", "a">>, b |-> <<"@tldraw/", "b">>,
     c |-> <<"@tldraw-labs/", "c">>, x |-> <<"@tldraw/", "x">>]

\* packageDetails.version
Versions == [a |-> "2.0.0", b |-> "2.0.0", c |-> "2.0.1", x |-> "2.0.0"]

\* str.replace(pattern, ''): the first occurrence of the pattern is dropped
replace(parts, pattern) ==
    IF \E k \in 1..Len(parts) : parts[k] = pattern
    THEN LET k == CHOOSE j \in 1..Len(parts) :
                      parts[j] = pattern /\ \A h \in 1..(j - 1) : parts[h] # pattern
         IN SubSeq(parts, 1, k - 1) \o SubSeq(parts, k + 1, Len(parts))
    ELSE parts

\* the name with its scope kept
unscopedNameKept(p) == NameParts[p]

\* const unscopedName = packageDetails.name.replace('@tldraw/', '')
unscopedName(p) == replace(NameParts[p], "@tldraw/")

\* `${unscopedName}-${newVersion}`
BranchName(p) == unscopedName(p) \o <<"-", Versions[p]>>

\* git push -f -u origin <branch>
PushArgs(p) == [pkg |-> p, branch |-> BranchName(p), force |-> TRUE]

\* exec(...) / fetch(...): the external operation is started
exec(s, p, cmd) ==
    [s EXCEPT !.running = @ \cup {[pkg |-> p, cmd |-> cmd]},
              !.started = @ \cup {[pkg |-> p, cmd |-> cmd]},
              !.pushLog = IF cmd = "push" THEN Append(@, PushArgs(p)) ELSE @]

\* an external operation settled; the promise it returned is settled
\* err is the error the operation threw, "" when it returned
settle(s, op, ok, status, output, err) ==
    [s EXCEPT !.running = @ \ {op},
              !.workdir = IF watchDir THEN effect(@, op.cmd, ok) ELSE @,
              !.lastSettled = [op |-> op, ok |-> ok, status |-> status, output |-> output,
                               err |-> err]]

(***************************************************************************)
(* retry()                                                                 *)
(***************************************************************************)
\* attempt() counting the invocation being made out of remaining
attemptRemainingOff(s, site) ==
    LET c == s.retryState[site]
        s1 == [s EXCEPT !.retryState[site].calls = @ + 1,
                        !.retryState[site].args =
                            [attempt |-> c.attempts,
                             remaining |-> c.numAttempts - c.attempts - 1,
                             total |-> c.numAttempts]]
    IN exec(s1, c.pkg, SiteCmd(site))

\* function attempt(): fn({attempt, remaining, total}) is invoked
attempt(s, site) ==
    LET c == s.retryState[site]
        s1 == [s EXCEPT !.retryState[site].calls = @ + 1,
                        !.retryState[site].args =
                            [attempt |-> c.attempts,
                             remaining |-> c.numAttempts - c.attempts,
                             total |-> c.numAttempts]]
    IN exec(s1, c.pkg, SiteCmd(site))

\* retry with one counter for every loop, left as the loop before left it
retryCarryOver(s, site, p, numAttempts, delay) ==
    attempt([s EXCEPT !.retryState[site] =
                 [NoLoop EXCEPT !.pkg = p, !.numAttempts = numAttempts,
                                !.delay = delay, !.settled = "pending",
                                !.attempts = s.retryState["publish"].attempts]],
            site)

\* retry(fn, opts): a fresh closure with attempts = 0, then attempt()
retry(s, site, p, numAttempts, delay) ==
    attempt([s EXCEPT !.retryState[site] =
                 [NoLoop EXCEPT !.pkg = p, !.numAttempts = numAttempts,
                                !.delay = delay, !.settled = "pending"]],
            site)

\* the comparison off by one
ExhaustedLate(attempts, numAttempts) == attempts > numAttempts

\* if (attempts >= opts.numAttempts)
Exhausted(attempts, numAttempts) == attempts >= numAttempts

\* retrying at once
TimeoutDelayNone(c) == 0

\* the delay handed to setTimeout
TimeoutDelay(c) == c.delay

\* setTimeout(attempt, opts.delay)
setTimeout(s, site, delay) ==
    [s EXCEPT !.timers = @ \cup {[site |-> site, delay |-> delay, elapsed |-> 0]}]

\* resolve() or reject(err) is called: a promise settles once, a call after
\* that is ignored; nsettle counts the calls
settlePromise(s, site, how, err) ==
    LET s1 == [s EXCEPT !.retryState[site].nsettle = @ + 1]
    IN IF s.retryState[site].settled = "pending"
       THEN [s1 EXCEPT !.retryState[site].settled = how, !.retryState[site].reason = err]
       ELSE s1

(***************************************************************************)
(* publish(): the code between two awaits                                  *)
(***************************************************************************)
CurPkg(s) == s.publishOrder[s.i]

\* an exception leaves the async function: publish() rejects
Reject(s, op) == [s EXCEPT !.pc = "rejected", !.fatal = op]

\* await exec(cmd) of the package being processed
goto(s, cmd) == [exec(s, CurPkg(s), cmd) EXCEPT !.pc = cmd]

\* afterPublish without the availability step
afterPublishSkipAvail(s) ==
    goto([s EXCEPT !.published = @ \cup {CurPkg(s)}], "rmAssets1")

\* the first retry(...) resolved: the second retry(...)
afterPublish(s) ==
    [retry([s EXCEPT !.published = @ \cup {CurPkg(s)}], "avail", CurPkg(s),
           AvailNumAttempts, AvailDelay)
     EXCEPT !.pc = "retryAvail"]

\* startPackage with the first retry(...) not awaited
startPackageNoAwait(s, k) ==
    IF k > Len(s.publishOrder)
    THEN [s EXCEPT !.pc = "resolved"]
    ELSE afterPublish(retry([s EXCEPT !.i = k], "publish", s.publishOrder[k],
                            PublishNumAttempts, PublishDelay))

\* head of the for loop, then the first retry(...) of the body
startPackage(s, k) ==
    IF k > Len(s.publishOrder)
    THEN [s EXCEPT !.pc = "resolved"]
    ELSE [retry([s EXCEPT !.i = k], "publish", s.publishOrder[k],
                PublishNumAttempts, PublishDelay)
          EXCEPT !.pc = "retryPublish"]

\* afterAvail without the removal of tldraw-assets
afterAvailKeepAssets(s) == goto(s, "rmPackage1")

\* the second retry(...) resolved: rm -rf tldraw-assets
afterAvail(s) == goto(s, "rmAssets1")

\* the caller of retry() is resumed when the promise it awaits settles
resume(s, site, how, op) ==
    CASE site = "publish" /\ s.pc = "retryPublish" ->
            IF how = "resolved" THEN afterPublish(s) ELSE Reject(s, op)
      [] site = "avail" /\ s.pc = "retryAvail" ->
            IF how = "resolved" THEN afterAvail(s) ELSE Reject(s, op)
      [] site = "op" /\ s.pc = "retryOp" -> [s EXCEPT !.pc = how, !.fatal =
            IF how = "rejected" THEN op ELSE @]
      [] OTHER -> s

\* fn(...).then(resolve)
onFulfilled(s, site) ==
    LET s1 == settlePromise(s, site, "resolved", "")
    IN IF s.retryState[site].settled = "pending"
       THEN resume(s1, site, "resolved", NoOp)
       ELSE s1

\* reject() called with an error of its own
RejectReasonGeneric(s) == "Error"

\* the err of .catch((err) => ...): what the invocation that just settled threw
RejectReason(s) == s.lastSettled.err

\* fn(...).catch((err) => { attempts++ ... })
onRejected(s, site, op) ==
    LET s1 == [s EXCEPT !.retryState[site].attempts = @ + 1]
        c == s1.retryState[site]
        s2 == settlePromise(s1, site, "rejected", RejectReason(s1))
    IN IF Exhausted(c.attempts, c.numAttempts)
       THEN IF c.settled = "pending"
            THEN resume(s2, site, "rejected", op)
            ELSE s2
       ELSE setTimeout(s1, site, TimeoutDelay(c))

(***************************************************************************)
(* The operations of the two retried steps                                 *)
(***************************************************************************)
\* lines the publish command may print
Lines == {"YN0000: Done",
          "YN0035: You cannot publish over the previously published versions: 2.0.0"}

\* lines of which RepublishMsg is a substring
RepublishLines == {"YN0035: You cannot publish over the previously published versions: 2.0.0"}

\* the output captured by one attempt: the lines it printed
Outputs == SUBSET Lines

\* output.includes('You cannot publish over the previously published versions')
AlreadyPublished(output) == output \cap RepublishLines # {}

\* publishFn rethrowing every failure
publishFnRethrow(ok, output) == IF ok THEN "return" ELSE "throw"

\* the operation of the publish step
publishFn(ok, output) ==
    IF ok THEN "return"
    ELSE IF AlreadyPublished(output) THEN "return" ELSE "throw"

\* statuses the registry may answer the HEAD request with
Statuses == {200, 399, 400, 404}

\* the comparison off by one
PackageNotFoundAbove(status) == status > NotFoundStatus

\* if (res.status >= 400) throw
PackageNotFound(status) == status >= NotFoundStatus

\* availFn without the check of res.status
availFnNoStatus(ok, status) == IF ~ok THEN "throw" ELSE "return"

\* the operation of the availability step; ~ok is a fetch that rejects
availFn(ok, status) ==
    IF ~ok THEN "throw"
    ELSE IF PackageNotFound(status) THEN "throw" ELSE "return"

(***************************************************************************)
(* copyRecursiveSync                                                       *)
(***************************************************************************)
\* names of directory entries
EntryNames == {"x", "y"}

\* relative paths: the root and two levels below it
Paths ==
    {<<>>} \cup {<<n>> : n \in EntryNames} \cup {<<n, m>> : n \in EntryNames, m \in EntryNames}

Parent(p) == SubSeq(p, 1, Len(p) - 1)

\* a tree maps a relative path to "none", "dir" or the contents of a file;
\* an entry exists only inside a directory
IsTree(t) == \A p \in Paths : (p # <<>> /\ t[p] # "none") => t[Parent(p)] = "dir"

EmptyTree == [p \in Paths |-> "none"]

\* source trees, the missing source included
SrcTrees == {t \in [Paths -> {"none", "dir", "f1", "f2"}] : IsTree(t)}

\* what may be at dest before the call
DestTrees == {t \in [Paths -> {"none", "dir", "old"}] : IsTree(t)}

NoCopy == [dest |-> EmptyTree, err |-> "not called"]

\* fs.readdirSync(src): the entries of a directory, in name order
readdirSync(t, p) ==
    LET present(n) == Append(p, n) \in Paths /\ t[Append(p, n)] # "none"
    IN (IF present("x") THEN <<"x">> ELSE <<>>) \o (IF present("y") THEN <<"y">> ELSE <<>>)

\* fs.mkdirSync(dest, { recursive: true })
mkdirSync(st, p) ==
    IF st.dest[p] = "dir" THEN st
    ELSE IF st.dest[p] # "none" THEN [st EXCEPT !.err = "EEXIST"]
    ELSE [st EXCEPT !.dest[p] = "dir"]

\* copyFileSync refusing to replace an existing file
copyFileSyncKeep(t, st, p) ==
    IF t[p] = "none" THEN [st EXCEPT !.err = "ENOENT"]
    ELSE IF st.dest[p] = "dir" THEN [st EXCEPT !.err = "EISDIR"]
    ELSE IF st.dest[p] # "none" THEN st
    ELSE [st EXCEPT !.dest[p] = t[p]]

\* fs.copyFileSync(src, dest)
copyFileSync(t, st, p) ==
    IF t[p] = "none" THEN [st EXCEPT !.err = "ENOENT"]
    ELSE IF st.dest[p] = "dir" THEN [st EXCEPT !.err = "EISDIR"]
    ELSE [st EXCEPT !.dest[p] = t[p]]

RECURSIVE copyRecursiveSync(_, _, _), copyEntries(_, _, _, _, _)

\* st = [dest, err]; an err other than "" is the exception propagating
copyRecursiveSync(t, st, p) ==
    IF st.err # "" THEN st
    ELSE LET exists == t[p] # "none"
             isDirectory == exists /\ t[p] = "dir"
         IN IF isDirectory
            THEN copyEntries(t, mkdirSync(st, p), p, readdirSync(t, p), 1)
            ELSE copyFileSync(t, st, p)

\* fs.readdirSync(src).forEach(childItemName => copyRecursiveSync(...))
copyEntries(t, st, p, names, k) ==
    IF st.err # "" \/ k > Len(names) THEN st
    ELSE copyEntries(t, copyRecursiveSync(t, st, Append(p, names[k])), p, names, k + 1)

(***************************************************************************)
(* Initial states                                                          *)
(***************************************************************************)
BlankCopy ==
    /\ srcTree = EmptyTree
    /\ destTree = EmptyTree
    /\ copyResult = NoCopy

BlankPublish ==
    /\ publishOrder = <<>>
    /\ sortError = NoError
    /\ i = 0
    /\ running = {}
    /\ timers = {}
    /\ retryState = [site \in Sites |-> NoLoop]
    /\ started = {}
    /\ published = {}
    /\ available = {}
    /\ lastSettled = NoSettle
    /\ fatal = NoOp
    /\ workdir = NoWorkdir
    /\ pushLog = <<>>
    /\ remote = {}

\* the working directory is not followed
Blank == BlankPublish /\ BlankCopy /\ watchDir = FALSE

\* the registries publish() is run on: the keys are in the order of a sorted
\* listing of packages/, and every package has at most one localDep
PublishRegistries ==
    {r \in Registries(1) :
        Keys(r) \in {<<>>, <<"a">>, <<"b">>, <<"a", "b">>, <<"b", "c">>, <<"a", "b", "c">>}}

Init == packages \in PublishRegistries /\ pc = "init" /\ Blank

\* any registry of Registries(MaxDeps)
InitSort ==
    /\ \E ks \in DistinctSeqs(KeyNames, Cardinality(KeyNames)) :
        \E ds \in [1..Len(ks) -> DistinctSeqs(DepNames, MaxDeps)] :
            packages = Registry(ks, ds)
    /\ pc = "init"
    /\ Blank

InitRetry == packages = <<>> /\ pc = "idle" /\ Blank

InitCopy ==
    /\ srcTree \in SrcTrees
    /\ destTree \in DestTrees
    /\ copyResult = NoCopy
    /\ packages = <<>>
    /\ pc = "init"
    /\ BlankPublish
    /\ watchDir = FALSE

\* registries of at most two packages, the working directory followed
InitWorkdir ==
    /\ packages \in {r \in PublishRegistries : Len(r) <= 2}
    /\ pc = "init"
    /\ BlankPublish
    /\ BlankCopy
    /\ watchDir = TRUE

(***************************************************************************)
(* Actions                                                                 *)
(***************************************************************************)
\* topologicalSortPackages(packages) called on its own
SortCall ==
    /\ pc = "init"
    /\ LET r == topologicalSortPackages(packages)
       IN Becomes([State EXCEPT !.pc = "sorted",
                                !.sortError = r.err,
                                !.publishOrder = IF r.err = NoError THEN r.sorted ELSE <<>>])

\* the rejection of exec(...): the command exited with a code other than 0
ExecError(ok) == IF ok THEN "" ELSE "exit"

\* what the availability operation throws: the rejection of fetch, or
\* new Error('Package not found: ...')
FetchError(ok, status) ==
    IF ~ok THEN "fetch failed"
    ELSE IF PackageNotFound(status) THEN "Package not found"
    ELSE ""

\* errors the operation of a retry() called on its own may throw
OpErrors == {"E1", "E2"}

\* publish() is called and runs to its first await
PublishCall ==
    /\ pc = "init"
    /\ \E configOk \in BOOLEAN :
        IF ~configOk
        THEN Becomes(Reject(State, [pkg |-> "", cmd |-> "config"]))
        ELSE LET r == topologicalSortPackages(packages)
             IN IF r.err # NoError
                THEN Becomes(Reject([State EXCEPT !.sortError = r.err],
                                    [pkg |-> r.err.missing, cmd |-> "sort"]))
                ELSE Becomes(startPackage([State EXCEPT !.publishOrder = r.sorted], 1))

\* the yarn npm publish of an attempt exits
PublishExecSettle ==
    \E op \in running, ok \in BOOLEAN, output \in Outputs :
        /\ op.cmd = "publish"
        /\ LET failed == ~ok /\ output \cap RepublishLines = {}
               s1 == settle(State, op, ok, 0, output, ExecError(ok))
               s2 == [s1 EXCEPT !.retryState["publish"].nfail = @ + IF failed THEN 1 ELSE 0]
           IN Becomes(IF publishFn(ok, output) = "return"
                      THEN onFulfilled(s2, "publish")
                      ELSE onRejected(s2, "publish", op))

\* the HEAD request of an attempt is answered, or fails
\* when the check succeeds the transplant starts, in the working directory
\* as it was left
FetchSettle ==
    \E op \in running, ok \in BOOLEAN, status \in Statuses :
      \E left \in IF watchDir /\ availFn(ok, status) = "return" THEN Leftovers
                  ELSE {NoWorkdir} :
        /\ op.cmd = "fetch"
        /\ LET failed == ~ok \/ status >= 400
               s1 == settle(State, op, ok, IF ok THEN status ELSE 0, {}, FetchError(ok, status))
               s2 == [s1 EXCEPT !.retryState["avail"].nfail = @ + IF failed THEN 1 ELSE 0,
                                !.available = IF failed THEN @ ELSE @ \cup {op.pkg},
                                !.workdir = left]
           IN Becomes(IF availFn(ok, status) = "return"
                      THEN onFulfilled(s2, "avail")
                      ELSE onRejected(s2, "avail", op))

\* a setTimeout callback runs: attempt()
TimerFire ==
    \E t \in timers :
        /\ t.elapsed >= t.delay
        /\ Becomes(attempt([State EXCEPT !.timers = @ \ {t},
                                         !.retryState[t.site].waited = t.elapsed],
                           t.site))

\* time passes while a timer is pending
Tick ==
    /\ \E t \in timers : t.elapsed < t.delay
    /\ Becomes([State EXCEPT !.timers = {[t EXCEPT !.elapsed = @ + TickMs] : t \in @}])

\* what publish() does after the await of a command that did not throw
continue(s, next) ==
    CASE next = "loop" -> startPackage([s EXCEPT !.workdir = NoWorkdir], s.i + 1)
      [] OTHER -> goto(s, next)

\* AwaitSettles with every failure caught and ignored
AwaitSettlesIgnoring(cmd, fatalOnFail, next) ==
    \E op \in running, ok \in BOOLEAN :
        /\ op.cmd = cmd
        /\ LET s1 == settle(State, op, ok, 0, {}, ExecError(ok))
           IN Becomes(IF s1.pc # cmd THEN s1 ELSE continue(s1, next))

\* AwaitSettles without the try/catch around the removals
AwaitSettlesAllFatal(cmd, fatalOnFail, next) ==
    \E op \in running, ok \in BOOLEAN :
        /\ op.cmd = cmd
        /\ LET s1 == settle(State, op, ok, 0, {}, ExecError(ok))
           IN Becomes(IF s1.pc # cmd THEN s1
                      ELSE IF ok THEN continue(s1, next)
                      ELSE Reject(s1, op))

\* await exec(cmd) settles; publish() goes on unless the failure is fatal
AwaitSettles(cmd, fatalOnFail, next) ==
    \E op \in running, ok \in BOOLEAN :
        /\ op.cmd = cmd
        /\ LET s1 == settle(State, op, ok, 0, {}, ExecError(ok))
           IN Becomes(IF s1.pc # cmd THEN s1
                      ELSE IF ok \/ ~fatalOnFail THEN continue(s1, next)
                      ELSE Reject(s1, op))

RmAssets1Settle == AwaitSettles("rmAssets1", FALSE, "rmPackage1")

RmPackage1Settle == AwaitSettles("rmPackage1", FALSE, "curl")

CurlSettle == AwaitSettles("curl", TRUE, "clone")

CloneSettle == AwaitSettles("clone", TRUE, "tar")

\* tar settles, then copyRecursiveSync runs synchronously and may throw
TarSettle ==
    \E op \in running, ok \in BOOLEAN, copyOk \in BOOLEAN :
        /\ op.cmd = "tar"
        /\ LET s1 == settle(State, op, ok, 0, {}, ExecError(ok))
               copy == [pkg |-> op.pkg, cmd |-> "copy"]
               s2 == [s1 EXCEPT !.started = @ \cup {copy},
                                !.workdir = IF watchDir THEN effect(@, "copy", copyOk) ELSE @]
           IN Becomes(IF s1.pc # "tar" THEN s1
                      ELSE IF ~ok THEN Reject(s1, op)
                      ELSE IF copyOk THEN goto(s2, "checkout")
                      ELSE Reject(s2, copy))

CheckoutSettle == AwaitSettles("checkout", TRUE, "add")

AddSettle == AwaitSettles("add", TRUE, "commit")

CommitSettle == AwaitSettles("commit", TRUE, "push")

\* the remote takes a push to a branch it has only when it is forced
PushAccepted(force, old) == force \/ ~old

\* the branch now heads the commit of the package, whatever it headed before
pushed(r, args, old) ==
    {b \in r : b.branch # args.branch}
        \cup {[branch |-> args.branch, head |-> args.pkg, replaced |-> old]}

\* git push settles; old: the branch was on the remote already
PushSettle ==
    \E op \in running, ok \in BOOLEAN, old \in IF watchDir THEN BOOLEAN ELSE {FALSE} :
        /\ op.cmd = "push"
        /\ ok => PushAccepted(pushLog[Len(pushLog)].force, old)
        /\ LET s1 == settle(State, op, ok, 0, {}, ExecError(ok))
               s2 == [s1 EXCEPT !.remote =
                          IF watchDir THEN pushed(@, pushLog[Len(pushLog)], old) ELSE @]
           IN Becomes(IF s1.pc # "push" THEN s1
                      ELSE IF ok THEN continue(s2, "rmTarball")
                      ELSE Reject(s1, op))

RmTarballSettle == AwaitSettles("rmTarball", FALSE, "rmAssets2")

RmAssets2Settle == AwaitSettles("rmAssets2", FALSE, "rmPackage2")

RmPackage2Settle == AwaitSettles("rmPackage2", FALSE, "loop")

\* retry(fn, opts) called on its own, with an operation that fails or succeeds
RetryCall ==
    /\ pc = "idle"
    /\ \E n \in 1..MaxAttempts, d \in {PublishDelay, AvailDelay} :
        Becomes([retry(State, "op", "", n, d) EXCEPT !.pc = "retryOp"])

OpSettle ==
    \E op \in running, ok \in BOOLEAN :
        \E err \in IF ok THEN {""} ELSE OpErrors :
            /\ op.cmd = "op"
            /\ LET s1 == settle(State, op, ok, 0, {}, err)
                   s2 == [s1 EXCEPT !.retryState["op"].nfail = @ + IF ok THEN 0 ELSE 1,
                                    !.retryState["op"].errs =
                                        IF ok THEN @ ELSE Append(@, err)]
               IN Becomes(IF ok THEN onFulfilled(s2, "op") ELSE onRejected(s2, "op", op))

Next ==
    \/ PublishCall
    \/ PublishExecSettle
    \/ FetchSettle
    \/ TimerFire
    \/ Tick
    \/ RmAssets1Settle
    \/ RmPackage1Settle
    \/ CurlSettle
    \/ CloneSettle
    \/ TarSettle
    \/ CheckoutSettle
    \/ AddSettle
    \/ CommitSettle
    \/ PushSettle
    \/ RmTarballSettle
    \/ RmAssets2Settle
    \/ RmPackage2Settle

Spec == Init /\ [][Next]_vars

SpecWorkdir == InitWorkdir /\ [][Next]_vars

\* registries of at most two packages
InitLive ==
    /\ packages \in {r \in PublishRegistries : Len(r) <= 2}
    /\ pc = "init"
    /\ Blank

\* every external command and fetch that runs settles, every timer fires
SpecLive == InitLive /\ [][Next]_vars /\ WF_vars(Next)

NextSort == SortCall

SpecSort == InitSort /\ [][NextSort]_vars

NextRetry == RetryCall \/ OpSettle \/ TimerFire \/ Tick

\* copyRecursiveSync(src, dest) called on its own
CopyCall ==
    /\ pc = "init"
    /\ pc' = "copied"
    /\ copyResult' = copyRecursiveSync(srcTree, [dest |-> destTree, err |-> ""], <<>>)
    /\ UNCHANGED <<packages, publishOrder, sortError, i, running, timers, retryState,
                   started, published, available, lastSettled, fatal, pushLog,
                   remote, watchDir, workdir, srcTree, destTree>>

NextCopy == CopyCall

SpecCopy == InitCopy /\ [][NextCopy]_vars

SpecRetry == InitRetry /\ [][NextRetry]_vars

(***************************************************************************)
(* The localDeps relation                                                  *)
(***************************************************************************)
\* the direct localDeps of a name
DepsOf(pkgs, n) == IF n \in KeySet(pkgs) THEN Range(Lookup(pkgs, n).localDeps) ELSE {}

RECURSIVE ReachAll(_, _)
ReachAll(pkgs, S) ==
    LET T == S \cup UNION {DepsOf(pkgs, n) : n \in S}
    IN IF T = S THEN S ELSE ReachAll(pkgs, T)

\* the direct and transitive localDeps of a name
TransDeps(pkgs, n) == ReachAll(pkgs, DepsOf(pkgs, n))

\* every localDeps name is a registry key
Closed(pkgs) == \A n \in KeySet(pkgs) : DepsOf(pkgs, n) \subseteq KeySet(pkgs)

Acyclic(pkgs) == \A n \in KeySet(pkgs) : n \notin TransDeps(pkgs, n)

\* a depends on b depends on c
IsChainABC(pkgs) ==
    /\ KeySet(pkgs) = {"a", "b", "c"}
    /\ Lookup(pkgs, "a").localDeps = <<"b">>
    /\ Lookup(pkgs, "b").localDeps = <<"c">>
    /\ Lookup(pkgs, "c").localDeps = <<>>

(***************************************************************************)
(* Properties of topologicalSortPackages (SpecSort)                        *)
(***************************************************************************)
\* C1: on an acyclic registry all of whose localDeps are keys, the sort
\* returns an order in which every package comes strictly after each of its
\* direct and transitive localDeps, for every key order; a -> b -> c gives
\* [c, b, a].
C1_DepsBeforeDependents ==
    (pc = "sorted" /\ Closed(packages) /\ Acyclic(packages)) =>
        /\ sortError = NoError
        /\ \A n \in KeySet(packages) :
            /\ n \in Range(publishOrder)
            /\ \A d \in TransDeps(packages, n) :
                /\ d \in Range(publishOrder)
                /\ IndexOf(publishOrder, d) < IndexOf(publishOrder, n)
        /\ IsChainABC(packages) => publishOrder = <<"c", "b", "a">>

C1_Witness ==
    /\ pc = "sorted"
    /\ IsChainABC(packages)
    /\ Keys(packages) = <<"a", "b", "c">>
    /\ publishOrder = <<"c", "b", "a">>

\* C2: when a localDeps name is not a registry key, the sort returns no
\* order and fails with an error that names a missing package and carries a
\* chain that starts at a registry key, ends at the missing name, and steps
\* from each name to one of its localDeps.
C2_MissingDepError ==
    (pc = "sorted" /\ ~Closed(packages)) =>
        /\ sortError # NoError
        /\ publishOrder = <<>>
        /\ sortError.missing \notin KeySet(packages)
        /\ LET path == sortError.path
           IN /\ Len(path) >= 2
              /\ path[1] \in KeySet(packages)
              /\ path[Len(path)] = sortError.missing
              /\ \A k \in 1..(Len(path) - 1) : path[k + 1] \in DepsOf(packages, path[k])

C2_Witness ==
    /\ pc = "sorted"
    /\ sortError.missing = "x"
    /\ Len(sortError.path) = 4

(***************************************************************************)
(* Properties of publish() (Spec)                                          *)
(***************************************************************************)
Op(p, cmd) == [pkg |-> p, cmd |-> cmd]

\* operations that were invoked and have settled
Finished == started \ running

\* position of a package in PublishOrder
Pos(p) == IndexOf(publishOrder, p)

\* C3: over an acyclic registry, the registry-publish command of a package
\* is never invoked before each of its direct and transitive localDeps has
\* completed its publish step and had an availability check answer with a
\* status below 400.
C3_DepsPublishedFirst ==
    Acyclic(packages) =>
        \A op \in started :
            op.cmd = "publish" =>
                \A d \in TransDeps(packages, op.pkg) :
                    d \in published /\ d \in available

C3_Witness ==
    /\ IsChainABC(packages)
    /\ Op("a", "publish") \in running
    /\ {"b", "c"} \subseteq published \cap available

\* C4: packages are processed one at a time in PublishOrder: at most one
\* step (a running command or a pending retry delay) is in progress, it
\* belongs to the package being processed, and no step of the package at
\* position k+1 has started unless the last cleanup step of the package at
\* position k has finished.
C4_OneAtATime ==
    /\ Cardinality(running) + Cardinality(timers) <= 1
    /\ \A op \in running : op.cmd # "op" => op.pkg = publishOrder[i]
    /\ \A t \in timers : t.site # "op" => retryState[t.site].pkg = publishOrder[i]
    /\ \A op \in started :
        op.cmd \notin {"op", "sort", "config"} =>
            /\ Pos(op.pkg) <= i
            /\ Pos(op.pkg) > 1 =>
                Op(publishOrder[Pos(op.pkg) - 1], "rmPackage2") \in Finished

C4_Witness ==
    /\ i = 2
    /\ \E t \in timers : t.site = "avail" /\ t.elapsed > 0
    /\ running = {}

(***************************************************************************)
(* Properties of retry() (SpecRetry)                                       *)
(***************************************************************************)
\* C5: with numAttempts >= 1, an operation that first succeeds on its Nth
\* call, N <= numAttempts, makes retry resolve after exactly N calls and is
\* not called again; an operation that fails on every call is called
\* exactly numAttempts times and retry rejects.
C5_ExactCallCount ==
    LET c == retryState["op"]
    IN c.settled # "none" =>
        /\ c.numAttempts >= 1
        /\ (lastSettled.op.cmd = "op" /\ lastSettled.ok) =>
                c.settled = "resolved" /\ pc = "resolved"
        /\ c.settled = "resolved" =>
                /\ c.calls = c.nfail + 1
                /\ c.calls <= c.numAttempts
                /\ running = {} /\ timers = {}
        /\ c.nfail >= c.numAttempts => c.settled = "rejected"
        /\ c.settled = "rejected" =>
                /\ c.calls = c.numAttempts
                /\ c.nfail = c.numAttempts
                /\ pc = "rejected"
                /\ running = {} /\ timers = {}
        /\ c.settled = "pending" => c.calls <= c.numAttempts

C5_Witness ==
    /\ retryState["op"].settled = "resolved"
    /\ retryState["op"].numAttempts = 3
    /\ retryState["op"].calls = 3

\* C6: an invocation after the first starts only when the configured delay
\* has fully elapsed since the preceding invocation failed; the delay is the
\* same configured value before every re-invocation; the first invocation
\* waits for nothing and no delay is pending after the final failure.
C6_FixedDelayBetweenAttempts ==
    \A site \in Sites :
        LET c == retryState[site]
        IN c.settled # "none" =>
            /\ c.calls >= 1
            /\ c.calls = 1 => c.waited = -1
            /\ c.calls >= 2 => c.waited >= c.delay
            /\ \A t \in timers :
                t.site = site =>
                    /\ t.delay = c.delay
                    /\ c.settled = "pending"
                    /\ c.attempts < c.numAttempts
                    /\ Op(c.pkg, SiteCmd(site)) \notin running
            /\ c.settled = "rejected" => \A t \in timers : t.site # site

C6_Witness ==
    /\ retryState["op"].calls = 3
    /\ retryState["op"].delay = AvailDelay
    /\ retryState["op"].waited >= AvailDelay
    /\ running # {}

(***************************************************************************)
(* Properties of the steps of publish() (Spec)                             *)
(***************************************************************************)
\* the commands of the transplant, downstream and cleanup steps
TransplantCmds == {"rmAssets1", "rmPackage1", "curl", "clone", "tar", "copy"}

DownstreamCmds == {"checkout", "add", "commit", "push"}

CleanupCmds == {"rmTarball", "rmAssets2", "rmPackage2"}

\* no step of a package after p in PublishOrder was ever executed
NothingAfter(p) == \A op \in started : Pos(op.pkg) <= Pos(p)

\* nothing is in progress, so nothing more will be executed
Quiet == running = {} /\ timers = {}

\* C7: in the availability step, k checks with a status >= 400 followed by a
\* check with a status < 400, k <= 9, make the step succeed after exactly
\* k+1 checks and the run go on to the transplant; 10 checks with a status
\* >= 400 make the step fail fatally after exactly 10 checks, and neither the
\* transplant of the package nor any step of a later package is executed.
C7_AvailabilityBudget ==
    LET c == retryState["avail"]
    IN c.settled # "none" =>
        /\ (lastSettled.op = Op(c.pkg, "fetch") /\ lastSettled.ok /\ lastSettled.status < 400) =>
                c.settled = "resolved"
        /\ c.settled = "resolved" =>
                /\ c.nfail <= 9
                /\ c.calls = c.nfail + 1
                /\ Op(c.pkg, "rmAssets1") \in started
        /\ c.nfail >= 10 => c.settled = "rejected"
        /\ c.settled = "rejected" =>
                /\ c.nfail = 10
                /\ c.calls = 10
                /\ pc = "rejected"
                /\ fatal = Op(c.pkg, "fetch")
                /\ \A op \in started : op.pkg = c.pkg => op.cmd \in {"publish", "fetch"}
                /\ NothingAfter(c.pkg)
                /\ Quiet
        /\ c.settled = "pending" => c.nfail <= 9 /\ ~Op(c.pkg, "rmAssets1") \in started

C7_Witness ==
    /\ retryState["avail"].settled = "resolved"
    /\ retryState["avail"].nfail = 9
    /\ retryState["avail"].calls = 10
    /\ lastSettled.status = 200
    /\ pc = "rmAssets1"

\* C8: a failed publish command whose captured output of that attempt holds
\* the republish message ends the publish step successfully: no further
\* publish attempt is made and the availability check starts.  A failed
\* command whose output does not hold it counts as a failed attempt, retried
\* after the delay while fewer than 5 attempts have failed.
C8_RepublishTolerated ==
    LET c == retryState["publish"]
        failedCmd == lastSettled.op = Op(c.pkg, "publish") /\ ~lastSettled.ok
        hasMsg == lastSettled.output \cap RepublishLines # {}
    IN c.settled # "none" =>
        /\ (failedCmd /\ hasMsg) =>
                /\ c.settled = "resolved"
                /\ c.pkg \in published
                /\ pc = "retryAvail"
                /\ running = {Op(c.pkg, "fetch")}
                /\ timers = {}
        /\ c.settled = "resolved" => c.calls = c.nfail + 1
        /\ (failedCmd /\ ~hasMsg) =>
                /\ c.attempts = c.nfail
                /\ c.nfail >= 1
                /\ IF c.nfail < 5
                   THEN /\ c.settled = "pending"
                        /\ pc = "retryPublish"
                        /\ \/ /\ running = {}
                              /\ \E t \in timers : t.site = "publish"
                              /\ c.calls = c.nfail
                           \/ /\ running = {Op(c.pkg, "publish")}
                              /\ timers = {}
                              /\ c.calls = c.nfail + 1
                   ELSE /\ c.settled = "rejected"
                        /\ c.calls = 5
                        /\ pc = "rejected"
                        /\ Quiet

C8_Witness ==
    /\ lastSettled.op.cmd = "publish"
    /\ ~lastSettled.ok
    /\ lastSettled.output \cap RepublishLines # {}
    /\ retryState["publish"].nfail = 2
    /\ pc = "retryAvail"

\* C9: a fatal error aborts the whole run: once 5 publish attempts or 10
\* availability checks have failed, or a download, clone, extract, copy,
\* checkout, add, commit or push has failed, publish() rejects and no step of
\* a later package of PublishOrder is ever executed.
C9_FatalAborts ==
    /\ retryState["publish"].nfail >= 5 => pc = "rejected" /\ fatal.cmd = "publish"
    /\ retryState["avail"].nfail >= 10 => pc = "rejected" /\ fatal.cmd = "fetch"
    /\ (lastSettled.op.cmd \in {"curl", "clone", "tar"} \cup DownstreamCmds /\ ~lastSettled.ok) =>
            pc = "rejected" /\ fatal = lastSettled.op
    /\ fatal.cmd = "copy" => pc = "rejected" /\ lastSettled.op = Op(fatal.pkg, "tar")
    /\ (pc = "rejected" /\ fatal.cmd \notin {"config", "sort"}) =>
            /\ fatal.pkg = publishOrder[i]
            /\ NothingAfter(fatal.pkg)
            /\ Quiet

C9_Witness ==
    /\ pc = "rejected"
    /\ fatal.cmd = "commit"
    /\ i = 1
    /\ Len(publishOrder) = 3
    /\ Quiet

\* C10: whenever the cycle of a package ends, also when the checkout, add,
\* commit or push of the downstream step fails, the removals of the tarball,
\* of tldraw-assets and of ./package have been executed for that package.
C10_CleanupAlways ==
    \A op \in started :
        (op.cmd \in DownstreamCmds /\ (Pos(op.pkg) < i \/ pc \in {"resolved", "rejected"})) =>
            \A cmd \in CleanupCmds : Op(op.pkg, cmd) \in started

(***************************************************************************)
(* Cleanup failures (Spec)                                                 *)
(***************************************************************************)
\* the five rm -rf commands of a cycle
RmCmds == {"rmAssets1", "rmPackage1"} \cup CleanupCmds

\* the step that publish() starts after a removal of the current package
AfterRm(cmd) ==
    CASE cmd = "rmAssets1" -> "rmPackage1"
      [] cmd = "rmPackage1" -> "curl"
      [] cmd = "rmTarball" -> "rmAssets2"
      [] cmd = "rmAssets2" -> "rmPackage2"
      [] OTHER -> "publish"

\* C11: a failed removal (tldraw-assets or ./package before the download;
\* the tarball, tldraw-assets or ./package at the end of the cycle) never
\* rejects publish(), and the step after the failed removal is executed:
\* the next command of the cycle, or the publish of the next package, or
\* the completion of the run after the last package.
C11_CleanupFailureSwallowed ==
    /\ fatal.cmd \notin RmCmds
    /\ (lastSettled.op.cmd \in RmCmds /\ ~lastSettled.ok) =>
        LET p == lastSettled.op.pkg
            cmd == lastSettled.op.cmd
        IN /\ pc # "rejected"
           /\ IF cmd # "rmPackage2"
              THEN /\ pc = AfterRm(cmd)
                   /\ running = {Op(p, AfterRm(cmd))}
              ELSE IF Pos(p) < Len(publishOrder)
              THEN /\ i = Pos(p) + 1
                   /\ Op(publishOrder[i], "publish") \in started
                   /\ pc = "retryPublish"
              ELSE pc = "resolved"

C11_Witness ==
    /\ lastSettled.op.cmd = "rmPackage2"
    /\ ~lastSettled.ok
    /\ i = 2
    /\ running = {Op(publishOrder[2], "publish")}

(***************************************************************************)
(* Properties of copyRecursiveSync (SpecCopy)                              *)
(***************************************************************************)
IsFile(v) == v \notin {"none", "dir"}

\* an entry of dest is of the other kind than the entry of src at that path
KindConflict(src, dest) ==
    \E p \in Paths :
        \/ src[p] = "dir" /\ IsFile(dest[p])
        \/ IsFile(src[p]) /\ dest[p] = "dir"

\* C12 as stated: after the copy of an existing source the relative paths
\* under dest are those under src, directories are directories and every
\* file has the contents of its source.
C12_IdenticalTree ==
    (pc = "copied" /\ srcTree[<<>>] # "none") =>
        /\ copyResult.err = ""
        /\ \A p \in Paths : copyResult.dest[p] = srcTree[p]

\* C12 amended: when no existing entry of dest is of the other kind than the
\* source entry at its path, the copy succeeds and every path under src is
\* under dest with the same kind and, for a file, the same contents (an
\* existing file is overwritten); the entries of dest that src does not have
\* are kept, so the paths are the same only if dest had no such entry.  On a
\* conflict of kinds the copy throws.
C12_SourceTreeMergedIntoDest ==
    (pc = "copied" /\ srcTree[<<>>] # "none") =>
        /\ copyResult.err = "" <=> ~KindConflict(srcTree, destTree)
        /\ copyResult.err = "" =>
            \A p \in Paths :
                /\ srcTree[p] # "none" => copyResult.dest[p] = srcTree[p]
                /\ srcTree[p] = "none" => copyResult.dest[p] = destTree[p]

C12_Witness ==
    /\ pc = "copied"
    /\ copyResult.err = ""
    /\ srcTree[<<"x">>] = "dir" /\ srcTree[<<"x", "y">>] = "f2" /\ srcTree[<<"y">>] = "none"
    /\ destTree[<<"x", "y">>] = "old" /\ destTree[<<"y">>] = "old"
    /\ copyResult.dest[<<"x", "y">>] = "f2" /\ copyResult.dest[<<"y">>] = "old"

(***************************************************************************)
(* The order of the steps of a cycle                                       *)
(***************************************************************************)
\* the steps of the body of the for loop, in program order
StepOrder == <<"publish", "fetch", "rmAssets1", "rmPackage1", "curl", "clone", "tar",
               "copy", "checkout", "add", "commit", "push",
               "rmTarball", "rmAssets2", "rmPackage2">>

StepIdx(cmd) == IndexOf(StepOrder, cmd)

\* the awaited operation whose settling lets a step start: the copy is
\* synchronous, so git checkout starts in the continuation of tar
PrevAwaited(cmd) == IF cmd = "checkout" THEN "tar" ELSE StepOrder[StepIdx(cmd) - 1]

\* the outcome with which a step lets publish() go on by its own success
Succeeded(ls) ==
    CASE ls.op.cmd = "publish" -> ls.ok \/ AlreadyPublished(ls.output)
      [] ls.op.cmd = "fetch" -> ls.ok /\ ~PackageNotFound(ls.status)
      [] OTHER -> ls.ok

\* the steps started by the transition
NewlyStarted == {op \in started' : op \notin started /\ op.cmd \in Range(StepOrder)}

\* every step before one that starts was started and has settled, and a
\* download, clone or push is of a package whose availability was confirmed
EarlierStepsDone ==
    \A op \in NewlyStarted :
        op.cmd \in Range(StepOrder) =>
            /\ \A j \in 1..(StepIdx(op.cmd) - 1) :
                   Op(op.pkg, StepOrder[j]) \in started' \ running'
            /\ op.cmd \in {"curl", "clone", "push"} => op.pkg \in available'

\* C13 as stated: a step of a cycle starts only when the step before it has
\* just settled successfully, and no download, clone or push of a package
\* precedes the answer below 400 of its availability check.
C13_EachAfterSuccess ==
    [][/\ EarlierStepsDone
       /\ \A op \in NewlyStarted :
              StepIdx(op.cmd) > 1 =>
                  /\ lastSettled'.op = Op(op.pkg, PrevAwaited(op.cmd))
                  /\ Succeeded(lastSettled')]_vars

\* C13 amended: a step of a cycle starts only when the step before it has
\* just settled, successfully unless that step is one of the removals, whose
\* failure is ignored; no download, clone or push of a package precedes the
\* answer below 400 of its availability check.
C13_FixedStepOrder ==
    [][/\ EarlierStepsDone
       /\ \A op \in NewlyStarted :
              StepIdx(op.cmd) > 1 =>
                  /\ lastSettled'.op = Op(op.pkg, PrevAwaited(op.cmd))
                  /\ Succeeded(lastSettled') \/ lastSettled'.op.cmd \in RmCmds]_vars

C13_Witness ==
    /\ lastSettled.op.cmd = "rmPackage1"
    /\ ~lastSettled.ok
    /\ pc = "curl"
    /\ running = {Op(lastSettled.op.pkg, "curl")}
    /\ lastSettled.op.pkg \in available

(***************************************************************************)
(* The arguments and the outcome of retry()                                *)
(***************************************************************************)
\* C14: the arguments of every invocation of the operation of a retry loop
\* have total equal to the configured numAttempts, attempt equal to the
\* number of invocations of this loop that failed before it (0 on the first
\* call, one more after each failure and only then), and attempt + remaining
\* equal to total.
C14_AttemptArguments ==
    \A site \in Sites :
        LET c == retryState[site]
        IN c.calls >= 1 =>
            /\ c.args.total = c.numAttempts
            /\ c.args.attempt + c.args.remaining = c.args.total
            /\ c.args.attempt = c.calls - 1
            /\ c.calls = 1 => c.args.attempt = 0
            /\ Op(c.pkg, SiteCmd(site)) \in running => c.args.attempt = c.nfail
            /\ Op(c.pkg, SiteCmd(site)) \notin running =>
                   c.nfail = c.args.attempt + (IF c.settled = "resolved" THEN 0 ELSE 1)

C14_Witness ==
    /\ running = {Op("", "op")}
    /\ retryState["op"].args = [attempt |-> 2, remaining |-> 1, total |-> 3]
    /\ retryState["op"].nfail = 2


\* C15: a retry loop that exhausts its attempts rejects with the error thrown
\* by its last, numAttempts-th invocation, whatever the earlier invocations
\* threw; resolve or reject is called exactly once for the promise, which is
\* then resolved or rejected, and it is called when nothing of the loop is
\* left to run.
C15_RejectsWithLastError ==
    \A site \in Sites :
        LET c == retryState[site]
            fn == Op(c.pkg, SiteCmd(site))
        IN c.settled # "none" =>
            /\ c.settled = "rejected" =>
                /\ c.calls = c.numAttempts
                /\ lastSettled.op = fn
                /\ lastSettled.err # ""
                /\ c.reason = lastSettled.err
                /\ site = "op" => Len(c.errs) = c.numAttempts /\ c.reason = c.errs[c.numAttempts]
            /\ c.settled = "pending" => c.nsettle = 0
            /\ c.settled \in {"resolved", "rejected"} => c.nsettle = 1
            /\ (fn \notin running /\ \A t \in timers : t.site # site) => c.settled # "pending"

C15_Witness ==
    /\ retryState["op"].settled = "rejected"
    /\ retryState["op"].errs = <<"E1", "E1", "E2">>
    /\ retryState["op"].reason = "E2"
    /\ retryState["op"].nsettle = 1

(***************************************************************************)
(* The working directory of a transplant                                   *)
(***************************************************************************)
\* the transplant of the package being processed has got to cmd
At(cmd) == pc = cmd /\ running = {Op(publishOrder[i], cmd)}

\* C16 as stated: when the removals at the start of a transplant succeed,
\* nothing stale, the tarball included, is in the working directory when the
\* download begins.
C16_AllStaleRemovedBeforeDownload ==
    (At("curl") /\ ~workdir.rmFailed) =>
        /\ workdir.tarball # "stale"
        /\ workdir.assets # "stale"
        /\ workdir.package # "stale"

\* C16 amended: the removals at the start of a transplant are of
\* tldraw-assets and ./package only, a stale tarball is left for the download
\* to overwrite; when those removals succeed the download and the clone
\* begin with neither directory present, the extraction runs with the
\* tarball just downloaded and no ./package, and what is copied, committed
\* and pushed holds nothing left by an earlier cycle.
C16_StaleDirsRemovedBeforeDownload ==
    ~workdir.rmFailed =>
        /\ (At("curl") \/ At("clone")) =>
                workdir.assets = "absent" /\ workdir.package = "absent"
        /\ (At("clone") \/ At("tar")) => workdir.tarball = "fresh"
        /\ At("tar") => workdir.package = "absent" /\ workdir.assets = "fresh"
        /\ (\E cmd \in DownstreamCmds : At(cmd)) =>
                workdir.assets = "fresh" /\ workdir.package = "fresh"

C16_Witness ==
    /\ At("curl")
    /\ lastSettled.op.cmd = "rmPackage1" /\ lastSettled.ok
    /\ workdir = [tarball |-> "stale", assets |-> "absent", package |-> "absent",
                  rmFailed |-> FALSE]
    /\ i = 2

(***************************************************************************)
(* The pushes of a run                                                     *)
(***************************************************************************)
\* <unscopedName>-<version> of each package of the registries
ExpectedBranch ==
    [a |-> <<"a", "-", "2.0.0">>, b |-> <<"b", "-", "2.0.0">>,
     c |-> <<"@tldraw-labs/", "c", "-", "2.0.1">>]

NoDuplicates(order) == \A j, k \in 1..Len(order) : order[j] = order[k] => j = k

\* C18: on a registry all of whose localDeps are keys, with or without a
\* cycle or a self-dependency, the sort ends without an error and returns
\* every package of the registry exactly once.
C18_SortTotalOnClosedRegistries ==
    (pc = "sorted" /\ Closed(packages)) =>
        /\ sortError = NoError
        /\ Len(publishOrder) = Len(packages)
        /\ Range(publishOrder) = KeySet(packages)
        /\ NoDuplicates(publishOrder)

C18_Witness ==
    /\ pc = "sorted"
    /\ Keys(packages) = <<"a", "b", "c">>
    /\ Lookup(packages, "a").localDeps = <<"b", "a">>
    /\ Lookup(packages, "b").localDeps = <<"c">>
    /\ Lookup(packages, "c").localDeps = <<"a">>
    /\ publishOrder = <<"c", "b", "a">>

(***************************************************************************)
(* A registry with a missing localDep                                      *)
(***************************************************************************)
\* C19: when a localDeps name is not a registry key, publish() is rejected
\* before anything is invoked for any package: the order is computed, and
\* the error thrown, before the first cycle starts, so that no package is
\* published and no branch pushed.
C19_MissingDepPublishesNothing ==
    ~Closed(packages) =>
        /\ pc \in {"init", "rejected"}
        /\ pc = "rejected" =>
            /\ fatal.cmd \in {"config", "sort"}
            /\ fatal.cmd = "sort" => fatal.pkg \notin KeySet(packages) /\ sortError # NoError
        /\ started = {}
        /\ running = {}
        /\ published = {}
        /\ pushLog = <<>>
        /\ publishOrder = <<>>

C19_Witness ==
    /\ pc = "rejected"
    /\ fatal = Op("x", "sort")
    /\ Len(packages) = 3
    /\ Lookup(packages, "c").localDeps = <<"x">>
    /\ started = {}

(***************************************************************************)
(* Termination and the number of invocations (SpecLive)                    *)
(***************************************************************************)
\* publish() has settled: resolved after the cleanup of the last package, or
\* rejected with the operation that failed
Terminated ==
    \/ /\ pc = "resolved"
       /\ \A k \in 1..Len(publishOrder) : Op(publishOrder[k], "rmPackage2") \in Finished
       /\ Len(publishOrder) = Len(packages)
    \/ pc = "rejected" /\ fatal # NoOp

\* the loops of the two retried steps are of the package being processed,
\* each has invoked its operation at most numAttempts times, 5 and 10, and
\* its first invocation was made with the counter at 0
LoopsBounded ==
    /\ \A site \in {"publish", "avail"} :
        LET c == retryState[site]
        IN c.settled # "none" =>
            /\ c.calls <= c.numAttempts
            /\ c.calls = 1 => c.args.attempt = 0 /\ c.attempts = c.nfail
    /\ retryState["publish"].settled # "none" =>
        /\ retryState["publish"].numAttempts = 5
        /\ retryState["publish"].pkg = publishOrder[i]
    /\ retryState["avail"].settled # "none" =>
        /\ retryState["avail"].numAttempts = 10
        /\ retryState["avail"].pkg \in Range(SubSeq(publishOrder, 1, i))

\* a loop is started for a package once: when the for loop gets to the
\* package, and when its publish step has resolved
OneLoopPerStep ==
    /\ retryState["publish"].calls' < retryState["publish"].calls
            \/ retryState["publish"].pkg' # retryState["publish"].pkg
        => i' = i + 1 /\ retryState["publish"].calls' = 1
    /\ retryState["avail"].calls' < retryState["avail"].calls
            \/ retryState["avail"].pkg' # retryState["avail"].pkg
        => /\ pc = "retryPublish" /\ pc' = "retryAvail"
           /\ retryState["avail"].pkg' = publishOrder[i]
           /\ retryState["avail"].calls' = 1

\* C20: when everything that runs settles, every run of publish() ends,
\* resolved after the cleanup of the last package or rejected by a fatal
\* error; in every run the publish command is invoked at most 5 times and the
\* availability check at most 10 times for a package, each loop counting its
\* own attempts from 0.
C20_TerminatesWithinBudget ==
    /\ <>Terminated
    /\ []LoopsBounded
    /\ [][OneLoopPerStep]_vars

C20_Witness ==
    /\ pc = "resolved"
    /\ Len(publishOrder) = 2
    /\ retryState["publish"].calls = 5
    /\ retryState["avail"].calls = 10
    /\ retryState["avail"].settled = "resolved"

====
